---- MODULE Spec2Model ----
(***************************************************************************)
(* Model of the video sampling and emotion-aggregation pipeline of app.py: *)
(* analyze_video_emotions (open, frame loop, per-frame classification,     *)
(* tally) and the part of main that reports the result.                    *)
(*                                                                         *)
(* One action per step of the code: the open, one action per kind of loop  *)
(* iteration, the exits of the loop, and main's report.                    *)
(***************************************************************************)
EXTENDS Integers, Sequences, FiniteSets

(* ------------------------------ bounds --------------------------------- *)
\* longest video explored, in frames
MaxFrames == 5
\* the source reports a rate of fpsNum / FpsDen frames per second,
\* fpsNum in -MaxFpsNum .. MaxFpsNum
MaxFpsNum == 4
\* most face records in one classifier result
MaxFaces == 2
\* denominator of the reported frame rates (rates are multiples of 1/FpsDen)
FpsDen == 2

(* ------------------------- program constants --------------------------- *)
\* frame rate substituted when the detected one is <= 0
FallbackRate == 30
\* seconds between two samples
SampleSeconds == 2

\* the classifier's vocabulary, in the enumeration order of a face record
\* (two of the labels of the classifier stand for its vocabulary)
EmotionOrder == <<"happy", "sad">>
Labels == {EmotionOrder[i] : i \in 1..Len(EmotionOrder)}
\* confidence scores: two levels realise every order (<, =, >) between the
\* scores of two labels, which is all that the choice of the top label reads
Scores == {0, 1}
\* a face record: the score of each label, by position in EmotionOrder
FaceRecords == [1..Len(EmotionOrder) -> Scores]
\* what detect_emotions can return: zero or more face records
DetectionResults == UNION {[1..n -> FaceRecords] : n \in 0..MaxFaces}
FpsNums == (0 - MaxFpsNum)..MaxFpsNum

VARIABLES
    pc,              \* "open", "scan", "main", "done"
    outcome,         \* "none", "Completed", "SourceUnavailable", "Exception"
    fpsNum,          \* frame rate reported by the source, times FpsDen
    cap_opened,      \* cap.isOpened()
    released,        \* cap.release() has been called
    frame_rate,
    frame_interval,
    frame_count,
    pos,             \* frames read from the source so far
    emotions,        \* the list of top emotions
    results,         \* the last classifier result
    classified,      \* positions of the frames handed to the classifier
    errored,         \* positions on which the classifier raised
    faceFrames,      \* classifier calls that returned at least one face
    readRaised,      \* cap.read() raised
    video_emotions,  \* the returned dict, as a sequence of <<label, count>>
    messages,        \* what the user has been shown
    dominant_emotion,
    percentages      \* percentage shown per entry of video_emotions, in tenths

vars == <<pc, outcome, fpsNum, cap_opened, released, frame_rate,
          frame_interval, frame_count, pos, emotions, results, classified,
          errored, faceFrames, readRaised, video_emotions, messages,
          dominant_emotion, percentages>>

(* ---------------------------- pure helpers ----------------------------- *)
Max(a, b) == IF a >= b THEN a ELSE b

\* int(x) of a float x = n / d: truncation toward zero
IntTrunc(n, d) == IF n >= 0 THEN n \div d ELSE 0 - ((0 - n) \div d)

\* the check for a rate <= 0 is left out
DetectedRate_noFallback(n) == IntTrunc(n, FpsDen)

\* frame_rate = int(cap.get(CAP_PROP_FPS)); if frame_rate <= 0: frame_rate = 30
DetectedRate(n) == IF IntTrunc(n, FpsDen) <= 0 THEN FallbackRate
                   ELSE IntTrunc(n, FpsDen)

\* frame_interval = max(1, frame_rate * 2)
FrameInterval(rate) == Max(1, rate * SampleSeconds)

\* frame_count % frame_interval == 0
Sampled(fc, interval) == fc % interval = 0

\* max(results[0]["emotions"], key=results[0]["emotions"].get): the keys are
\* visited in enumeration order and a later key replaces the best so far only
\* when its score is strictly greater
RECURSIVE ArgMaxFrom(_, _, _)
ArgMaxFrom(rec, i, best) ==
    IF i > Len(rec) THEN best
    ELSE ArgMaxFrom(rec, i + 1, IF rec[i] > rec[best] THEN i ELSE best)

RECURSIVE ArgMaxLastFrom(_, _, _)
ArgMaxLastFrom(rec, i, best) ==
    IF i > Len(rec) THEN best
    ELSE ArgMaxLastFrom(rec, i + 1, IF rec[i] >= rec[best] THEN i ELSE best)

TopEmotion_lastMax(rec) == EmotionOrder[ArgMaxLastFrom(rec, 2, 1)]

TopEmotion(rec) == EmotionOrder[ArgMaxFrom(rec, 2, 1)]

\* every face of the frame is tallied instead of the first one only
Tallied_everyFace(emos, res) ==
    emos \o [i \in 1..Len(res) |-> TopEmotion(res[i])]

\* if results and len(results) > 0: emotions.append(top_emotion)
Tallied(emos, res) ==
    IF Len(res) > 0 THEN Append(emos, TopEmotion(res[1])) ELSE emos

\* number of occurrences of label l in the list
Count(l, emos) == Cardinality({i \in 1..Len(emos) : emos[i] = l})

Seen(emos) == {emos[i] : i \in 1..Len(emos)}

\* pd.Series(emotions).value_counts().to_dict() if emotions else {}
\* value_counts lists the distinct labels by descending count; the order of
\* labels with equal counts is not fixed by pandas (the sort it uses is not a
\* stable one), so every order of the ties is a possible result
ValueCounts(emos) ==
    LET S == Seen(emos)
        n == Cardinality(S)
        orders == {f \in [1..n -> S] :
                      /\ \A i, j \in 1..n : i # j => f[i] # f[j]
                      /\ \A i, j \in 1..n :
                            i < j => Count(f[i], emos) >= Count(f[j], emos)}
    IN  {[i \in 1..n |-> <<f[i], Count(f[i], emos)>>] : f \in orders}

\* sum(video_emotions.values())
RECURSIVE SumCounts(_)
SumCounts(ve) == IF ve = <<>> THEN 0 ELSE ve[1][2] + SumCounts(Tail(ve))

\* max(video_emotions, key=video_emotions.get): first key, in dict order,
\* whose count is not exceeded
RECURSIVE DomFrom(_, _, _)
DomFrom(ve, i, best) ==
    IF i > Len(ve) THEN best
    ELSE DomFrom(ve, i + 1, IF ve[i][2] > ve[best][2] THEN i ELSE best)

RECURSIVE DomMinFrom(_, _, _)
DomMinFrom(ve, i, best) ==
    IF i > Len(ve) THEN best
    ELSE DomMinFrom(ve, i + 1, IF ve[i][2] < ve[best][2] THEN i ELSE best)

\* min() written for max()
Dominant_min(ve) == ve[DomMinFrom(ve, 2, 1)][1]

Dominant(ve) == ve[DomFrom(ve, 2, 1)][1]

\* percentage = (count / total_detections) * 100, shown with format .1f:
\* the value in tenths of a percent, rounded to nearest, halves to even
Pct10(count, total) ==
    LET q == (count * 1000) \div total
        r == (count * 1000) % total
    IN  IF 2 * r > total THEN q + 1
        ELSE IF 2 * r < total THEN q
        ELSE IF q % 2 = 0 THEN q ELSE q + 1

\* an empty result is reported as a failure
ReportMessages_emptyFails(ve) ==
    IF ve # <<>> THEN {"analysis_completed", "dominant"}
    ELSE {"analysis_failed"}

\* the messages main adds for a result: st.success twice, or st.warning
ReportMessages(ve) ==
    IF ve # <<>> THEN {"analysis_completed", "dominant"}
    ELSE {"no_emotions"}

(* ------------------------------- Init ---------------------------------- *)
\* the state when main calls analyze_video_emotions: main returns before
\* the upload section when the detector is None, so the detector is loaded
Init ==
    /\ pc = "open"
    /\ outcome = "none"
    /\ fpsNum = 0
    /\ cap_opened = FALSE
    /\ released = FALSE
    /\ frame_rate = 0
    /\ frame_interval = 0
    /\ frame_count = 0
    /\ pos = 0
    /\ emotions = <<>>
    /\ results = <<>>
    /\ classified = <<>>
    /\ errored = {}
    /\ faceFrames = 0
    /\ readRaised = FALSE
    /\ video_emotions = <<>>
    /\ messages = {}
    /\ dominant_emotion = "none"
    /\ percentages = <<>>

(* ------------------------ analyze_video_emotions ----------------------- *)
\* cap.isOpened() is false: st.error, return {}
OpenFail ==
    /\ pc = "open"
    /\ messages' = messages \cup {"could_not_open"}
    /\ video_emotions' = <<>>
    /\ outcome' = "SourceUnavailable"
    /\ pc' = "main"
    /\ UNCHANGED <<fpsNum, cap_opened, released, frame_rate, frame_interval,
                   frame_count, pos, emotions, results, classified, errored,
                   faceFrames, readRaised, dominant_emotion, percentages>>

\* the source opens and reports the rate n / FpsDen
OpenOk(n) ==
    /\ pc = "open"
    /\ cap_opened' = TRUE
    /\ fpsNum' = n
    /\ frame_rate' = DetectedRate(n)
    /\ frame_interval' = FrameInterval(DetectedRate(n))
    /\ emotions' = <<>>
    /\ frame_count' = 0
    /\ pc' = "scan"
    /\ UNCHANGED <<outcome, released, pos, results, classified, errored,
                   faceFrames, readRaised, video_emotions, messages,
                   dominant_emotion, percentages>>

\* the loop never leaves: the end of the source is not noticed
ReadEnd_noBreak ==
    /\ pc = "scan"
    /\ cap_opened
    /\ UNCHANGED vars

\* ret is false: break, cap.release(), return the value counts
ReadEnd ==
    /\ pc = "scan"
    /\ cap_opened
    /\ released' = TRUE
    /\ cap_opened' = FALSE
    /\ video_emotions' \in ValueCounts(emotions)
    /\ outcome' = "Completed"
    /\ pc' = "main"
    /\ UNCHANGED <<fpsNum, frame_rate, frame_interval, frame_count, pos,
                   emotions, results, classified, errored, faceFrames,
                   readRaised, messages, dominant_emotion, percentages>>

\* cap.read() raises while decoding a frame: the outer handler reports the
\* error and returns {}; cap.release() is not on this path
ReadRaises ==
    /\ pc = "scan"
    /\ cap_opened
    /\ pos < MaxFrames
    /\ readRaised' = TRUE
    /\ messages' = messages \cup {"analysis_error"}
    /\ video_emotions' = <<>>
    /\ outcome' = "Exception"
    /\ pc' = "main"
    /\ UNCHANGED <<fpsNum, cap_opened, released, frame_rate, frame_interval,
                   frame_count, pos, emotions, results, classified, errored,
                   faceFrames, dominant_emotion, percentages>>

\* a frame is read and frame_count is not a multiple of the interval
IterSkip ==
    /\ pc = "scan"
    /\ cap_opened
    /\ pos < MaxFrames
    /\ ~Sampled(frame_count, frame_interval)
    /\ pos' = pos + 1
    /\ frame_count' = frame_count + 1
    /\ UNCHANGED <<pc, outcome, fpsNum, cap_opened, released, frame_rate,
                   frame_interval, emotions, results, classified, errored,
                   faceFrames, readRaised, video_emotions, messages,
                   dominant_emotion, percentages>>

\* a frame is read, frame_count is a multiple of the interval and the
\* classifier returns res
IterClassify(res) ==
    /\ pc = "scan"
    /\ cap_opened
    /\ pos < MaxFrames
    /\ Sampled(frame_count, frame_interval)
    /\ results' = res
    /\ emotions' = Tallied(emotions, res)
    /\ classified' = Append(classified, pos)
    /\ faceFrames' = IF Len(res) > 0 THEN faceFrames + 1 ELSE faceFrames
    /\ pos' = pos + 1
    /\ frame_count' = frame_count + 1
    /\ UNCHANGED <<pc, outcome, fpsNum, cap_opened, released, frame_rate,
                   frame_interval, errored, readRaised, video_emotions,
                   messages, dominant_emotion, percentages>>

\* a frame is read, frame_count is a multiple of the interval and the
\* classifier raises: st.warning, then continue, which goes back to the head
\* of the loop without reaching frame_count += 1
IterClassifyRaise ==
    /\ pc = "scan"
    /\ cap_opened
    /\ pos < MaxFrames
    /\ Sampled(frame_count, frame_interval)
    /\ classified' = Append(classified, pos)
    /\ errored' = errored \cup {pos}
    /\ messages' = messages \cup {"frame_warning"}
    /\ pos' = pos + 1
    /\ UNCHANGED <<pc, outcome, fpsNum, cap_opened, released, frame_rate,
                   frame_interval, frame_count, emotions, results, faceFrames,
                   readRaised, video_emotions, dominant_emotion, percentages>>

(* -------------------------------- main --------------------------------- *)
\* main reports what analyze_video_emotions returned
MainReport ==
    /\ pc = "main"
    /\ messages' = messages \cup ReportMessages(video_emotions)
    /\ percentages' =
          [i \in 1..Len(video_emotions) |->
              Pct10(video_emotions[i][2], SumCounts(video_emotions))]
    /\ dominant_emotion' =
          IF video_emotions # <<>> THEN Dominant(video_emotions) ELSE "none"
    /\ pc' = "done"
    /\ UNCHANGED <<outcome, fpsNum, cap_opened, released, frame_rate,
                   frame_interval, frame_count, pos, emotions, results,
                   classified, errored, faceFrames, readRaised,
                   video_emotions>>

Next ==
    \/ OpenFail
    \/ \E n \in FpsNums : OpenOk(n)
    \/ ReadEnd
    \/ ReadRaises
    \/ IterSkip
    \/ \E res \in DetectionResults : IterClassify(res)
    \/ IterClassifyRaise
    \/ MainReport

Spec == Init /\ [][Next]_vars

\* the loop is a single thread that keeps running: a step that can be taken
\* is eventually taken
FairSpec == Spec /\ WF_vars(Next)

TypeOK ==
    /\ pc \in {"open", "scan", "main", "done"}
    /\ outcome \in {"none", "Completed", "SourceUnavailable", "Exception"}
    /\ frame_count \in 0..MaxFrames
    /\ pos \in 0..MaxFrames
    /\ frame_count <= pos

(* ------------------------------ properties ----------------------------- *)
\* the source was opened by this run
WasOpened == pc # "open" /\ outcome # "SourceUnavailable"

\* analyze_video_emotions has returned
Returned == pc \in {"main", "done"}

ClassifiedSet == {classified[i] : i \in 1..Len(classified)}

\* index of the first occurrence of label l in the list
FirstIdx(l, emos) == CHOOSE i \in 1..Len(emos) :
                        emos[i] = l /\ \A j \in 1..(i - 1) : emos[j] # l

\* position of label l in the enumeration order of a face record
OrderIdx(l) == CHOOSE i \in 1..Len(EmotionOrder) : EmotionOrder[i] = l

\* C1: the frames handed to the classifier are exactly the frames whose
\* position in the video is a multiple of the sample interval, in ascending
\* order, also in runs in which the classifier raises.
C1_ClassifiedAreMultiples ==
    WasOpened =>
        /\ \A i \in 1..Len(classified) : classified[i] % frame_interval = 0
        /\ \A p \in 0..(pos - 1) :
              p % frame_interval = 0 => p \in ClassifiedSet
        /\ \A i, j \in 1..Len(classified) :
              i < j => classified[i] < classified[j]

\* C2: when the classifier raises on a sampled frame only that sample is
\* skipped: it adds nothing to the tally, every other frame at a multiple of
\* the interval is still classified and no other frame is, and the run ends
\* Completed.
C2_OnlyErroredSampleSkipped ==
    (Returned /\ WasOpened /\ ~readRaised) =>
        /\ outcome = "Completed"
        /\ Len(emotions) = faceFrames
        /\ \A p \in 0..(pos - 1) :
              (p % frame_interval = 0 /\ p \notin errored)
                  => p \in ClassifiedSet
        /\ \A p \in ClassifiedSet : p % frame_interval = 0

\* C3: a source that cannot be opened ends the run as a failure: no frame is
\* read, nothing is classified, there is no tally, and the user is not shown
\* the 'no emotions detected' message of a readable video.
C3_UnopenableIsDistinctFailure ==
    (pc = "done" /\ outcome = "SourceUnavailable") =>
        /\ pos = 0
        /\ classified = <<>>
        /\ video_emotions = <<>>
        /\ "could_not_open" \in messages
        /\ "no_emotions" \notin messages

\* C4: once the run has ended, in whatever way, a handle it opened has been
\* released.
C4_HandleReleasedOnEveryExit ==
    (Returned /\ WasOpened) => released

C6_NoFacesIsNotAFailure ==
    (pc = "done" /\ WasOpened /\ ~readRaised /\ faceFrames = 0) =>
        /\ outcome = "Completed"
        /\ video_emotions = <<>>
        /\ "no_emotions" \in messages
        /\ messages \cap {"could_not_open", "analysis_error",
                          "analysis_failed"} = {}

C6_Witness ==
    /\ pc = "done"
    /\ WasOpened
    /\ ~readRaised
    /\ faceFrames = 0
    /\ Len(classified) >= 3
    /\ errored # {}
    /\ ClassifiedSet # errored

C8_RunTerminates ==
    <>(pc = "done" /\ ((WasOpened /\ ~readRaised) => outcome = "Completed"))

\* a finished run in which the classifier raised on every frame it was given
C8_Witness ==
    /\ pc = "done"
    /\ outcome = "Completed"
    /\ Len(classified) >= 3
    /\ ClassifiedSet = errored

PercentagesOk ==
    /\ Len(percentages) = Len(video_emotions)
    /\ \A i \in 1..Len(video_emotions) :
          LET c == Count(video_emotions[i][1], emotions)
              d == percentages[i] * Len(emotions) - c * 1000
          IN  /\ 2 * d <= Len(emotions)
              /\ 2 * (0 - d) <= Len(emotions)

\* C9 as stated: the dominant label has the maximum count, among the labels
\* with the maximum count it is the one recorded first, and each percentage
\* is count / total * 100.
C9_DominantFirstRecordedOnTies ==
    (pc = "done" /\ video_emotions # <<>>) =>
        /\ \A l \in Labels :
              Count(l, emotions) <= Count(dominant_emotion, emotions)
        /\ \A l \in Seen(emotions) :
              Count(l, emotions) = Count(dominant_emotion, emotions)
                  => FirstIdx(dominant_emotion, emotions)
                        <= FirstIdx(l, emotions)
        /\ PercentagesOk

\* C9 amended: the dominant label has the maximum count (which of several
\* labels with the maximum count is reported is not fixed), and each
\* percentage is count / total * 100, to one decimal.
C9_DominantHasMaxCount ==
    (pc = "done" /\ video_emotions # <<>>) =>
        /\ dominant_emotion \in Seen(emotions)
        /\ \A l \in Labels :
              Count(l, emotions) <= Count(dominant_emotion, emotions)
        /\ PercentagesOk

\* happy on two samples then sad on one: {happy: 2, sad: 1}, 66.7% / 33.3%
C9_Witness ==
    /\ pc = "done"
    /\ emotions = <<"happy", "happy", "sad">>
    /\ video_emotions = << <<"happy", 2>>, <<"sad", 1>> >>
    /\ dominant_emotion = "happy"
    /\ percentages = <<667, 333>>

====
